---------------------------- MODULE Spec2Model ----------------------------
(* Reservation system of Act6.2/reservation_system.py: hotels, customers   *)
(* and reservations, each kept as one JSON snapshot file.  Every public    *)
(* operation loads the snapshot(s), applies one mutation and saves the     *)
(* snapshot(s) back.                                                       *)
EXTENDS Integers, Sequences, FiniteSets, TLC

(***************************************************************************)
(* Bounds of the model and the inputs the operations are called with.      *)
(***************************************************************************)
\* largest number of rooms a hotel is created with
MaxRooms == 2

\* Python values passed as ids: ints and strs; str() of each is the key
HotelIdValues == {[int |-> 1], [str |-> "2"]}
ResIdValues == {[int |-> 1], [str |-> "2"]}
\* the int 1 and the str "1" name the same customer
CustomerIdValues == {[int |-> 1], [str |-> "1"]}

\* rooms a hotel is created with: none, one, or MaxRooms
RoomValues == {0, 1, MaxRooms}

\* Python's None; None and the empty string are the falsy values of a name
None == "<None>"
\* names and locations hotels are created with, and modified to
CreateHotelNames == {"Plaza"}
CreateHotelLocations == {"NYC"}
ModifyHotelNames == {None, "", "Grand Plaza"}
ModifyHotelLocations == {None, "NYC"}
\* names and emails customers are created with, and modified to
CreateCustomerNames == {"John"}
CreateCustomerEmails == {"j@m.com"}
ModifyCustomerNames == {None, "John Doe"}
ModifyCustomerEmails == {None, "", "j@m.com"}

(***************************************************************************)
(* str(): the decimal digits of an int, a str unchanged.                   *)
(***************************************************************************)
Digit(d) ==
    CASE d = 0 -> "0" [] d = 1 -> "1" [] d = 2 -> "2" [] d = 3 -> "3"
      [] d = 4 -> "4" [] d = 5 -> "5" [] d = 6 -> "6" [] d = 7 -> "7"
      [] d = 8 -> "8" [] d = 9 -> "9"

RECURSIVE IntToStr(_)
IntToStr(n) ==
    IF n < 10 THEN Digit(n) ELSE IntToStr(n \div 10) \o Digit(n % 10)

str(x) == IF DOMAIN x = {"int"} THEN IntToStr(x.int) ELSE x.str

\* truth value of a Python str-or-None (if name: ...)
Truthy(x) == x /= None /\ x /= ""

(***************************************************************************)
(* dict helpers: data[k] = v, del data[k]                                  *)
(***************************************************************************)
EmptyDict == [k \in {} |-> 0]

SetItem(data, k, v) ==
    [x \in (DOMAIN data) \cup {k} |-> IF x = k THEN v ELSE data[x]]

DelItem(data, k) == [x \in (DOMAIN data) \ {k} |-> data[x]]

(***************************************************************************)
(* The file system: the three snapshot files.  A file is missing, or       *)
(* holds a JSON document (valid, with its data), or holds text that does   *)
(* not parse.                                                              *)
(***************************************************************************)
Hotel_FILE_NAME == "hotels.json"
Customer_FILE_NAME == "customers.json"
Reservation_FILE_NAME == "reservations.json"
FileNames == {Hotel_FILE_NAME, Customer_FILE_NAME, Reservation_FILE_NAME}

MissingFile == [exists |-> FALSE, valid |-> FALSE, data |-> EmptyDict]
JsonFile(data) == [exists |-> TRUE, valid |-> TRUE, data |-> data]

VARIABLES
    files,     \* file name -> content of the snapshot file
    lastOp,    \* the last completed public operation, its arguments and result
    procs      \* process -> where it is in create_/cancel_reservation, with
               \* the data it has loaded and the saves it has still to do

vars == <<files, lastOp, procs>>

\* the processes that run the program, each one operation at a time
Procs == {"p1", "p2"}

\* a process that is running no operation
IdleProc ==
    [pc |-> "idle", op |-> "none", res_id |-> "", customer_id |-> "",
     hotel_id |-> "", res_data |-> EmptyDict, hotel_data |-> EmptyDict,
     writes |-> <<>>, failed |-> {}, outcome |-> "none", ret |-> FALSE]

\* a load that recovers what can still be read in a file that does not parse
load_data_lenient(fs, filename) ==
    IF ~fs[filename].exists THEN EmptyDict ELSE fs[filename].data

\* DataManager.load_data
load_data(fs, filename) ==
    IF ~fs[filename].exists THEN EmptyDict
    ELSE IF ~fs[filename].valid THEN EmptyDict
    ELSE fs[filename].data

\* a save that keeps the records of the file that are not in data
save_data_merge(fs, filename, data) ==
    LET old == load_data(fs, filename) IN
    [fs EXCEPT ![filename] =
        JsonFile([k \in DOMAIN old \cup DOMAIN data |->
                     IF k \in DOMAIN data THEN data[k] ELSE old[k]])]

\* DataManager.save_data: overwrites the whole file
save_data(fs, filename, data) == [fs EXCEPT ![filename] = JsonFile(data)]

\* result of an operation: the file system it leaves and the value returned
Return(fs, value) == [fs |-> fs, ret |-> value]


(***************************************************************************)
(* class Hotel                                                             *)
(***************************************************************************)
\* Hotel.__init__: a new hotel has all its rooms available
Hotel_init(hotel_id, name, location, total_rooms) ==
    [hotel_id |-> str(hotel_id), name |-> name, location |-> location,
     total_rooms |-> total_rooms, available_rooms |-> total_rooms]

\* Hotel.to_dict
Hotel_to_dict(self) ==
    [name |-> self.name, location |-> self.location,
     total_rooms |-> self.total_rooms,
     available_rooms |-> self.available_rooms]

\* create_hotel without the duplicate check: an existing record is replaced
create_hotel_overwrite(fs, hotel_id, name, location, rooms) ==
    LET data == load_data(fs, Hotel_FILE_NAME)
        new_hotel == Hotel_init(hotel_id, name, location, rooms)
        data2 == SetItem(data, str(hotel_id), Hotel_to_dict(new_hotel))
    IN  Return(save_data(fs, Hotel_FILE_NAME, data2), TRUE)

\* Hotel.create_hotel
create_hotel(fs, hotel_id, name, location, rooms) ==
    LET data == load_data(fs, Hotel_FILE_NAME) IN
    IF str(hotel_id) \in DOMAIN data
    THEN Return(fs, FALSE)
    ELSE LET new_hotel == Hotel_init(hotel_id, name, location, rooms)
             data2 == SetItem(data, str(hotel_id), Hotel_to_dict(new_hotel))
         IN  Return(save_data(fs, Hotel_FILE_NAME, data2), TRUE)

\* delete_hotel that refuses to delete a hotel a reservation references
delete_hotel_guarded(fs, hotel_id) ==
    LET data == load_data(fs, Hotel_FILE_NAME)
        res_data == load_data(fs, Reservation_FILE_NAME)
    IN  IF /\ str(hotel_id) \in DOMAIN data
           /\ \A r \in DOMAIN res_data : res_data[r].hotel_id /= str(hotel_id)
        THEN Return(save_data(fs, Hotel_FILE_NAME,
                              DelItem(data, str(hotel_id))), TRUE)
        ELSE Return(fs, FALSE)

\* delete_hotel that also removes the reservations that reference the hotel
delete_hotel_cascade(fs, hotel_id) ==
    LET data == load_data(fs, Hotel_FILE_NAME)
        res_data == load_data(fs, Reservation_FILE_NAME)
        kept == {r \in DOMAIN res_data : res_data[r].hotel_id /= str(hotel_id)}
    IN  IF str(hotel_id) \in DOMAIN data
        THEN Return(save_data(save_data(fs, Hotel_FILE_NAME,
                                        DelItem(data, str(hotel_id))),
                              Reservation_FILE_NAME,
                              [r \in kept |-> res_data[r]]), TRUE)
        ELSE Return(fs, FALSE)

\* delete_hotel that saves what it loaded also when the hotel is not found
delete_hotel_rewrites(fs, hotel_id) ==
    LET data == load_data(fs, Hotel_FILE_NAME) IN
    IF str(hotel_id) \in DOMAIN data
    THEN Return(save_data(fs, Hotel_FILE_NAME, DelItem(data, str(hotel_id))),
                TRUE)
    ELSE Return(save_data(fs, Hotel_FILE_NAME, data), FALSE)

\* Hotel.delete_hotel
delete_hotel(fs, hotel_id) ==
    LET data == load_data(fs, Hotel_FILE_NAME) IN
    IF str(hotel_id) \in DOMAIN data
    THEN Return(save_data(fs, Hotel_FILE_NAME, DelItem(data, str(hotel_id))),
                TRUE)
    ELSE Return(fs, FALSE)

\* Hotel.display_hotel
HotelNotFound == "Hotel not found."

\* display_hotel that saves what it loaded before it returns
display_hotel_saves(fs, hotel_id) ==
    LET data == load_data(fs, Hotel_FILE_NAME)
        saved == save_data(fs, Hotel_FILE_NAME, data)
    IN  IF str(hotel_id) \in DOMAIN data
        THEN Return(saved, [found |-> TRUE, record |-> data[str(hotel_id)]])
        ELSE Return(saved, [found |-> FALSE, record |-> HotelNotFound])

display_hotel(fs, hotel_id) ==
    LET data == load_data(fs, Hotel_FILE_NAME) IN
    IF str(hotel_id) \in DOMAIN data
    THEN Return(fs, [found |-> TRUE, record |-> data[str(hotel_id)]])
    ELSE Return(fs, [found |-> FALSE, record |-> HotelNotFound])

\* modify_hotel that rebuilds the record with Hotel(...): the rooms of the
\* hotel are all available again
modify_hotel_rebuild(fs, hotel_id, name, location) ==
    LET data == load_data(fs, Hotel_FILE_NAME)
        hid == str(hotel_id)
    IN  IF hid \in DOMAIN data
        THEN LET new_hotel ==
                     Hotel_init(hotel_id,
                                IF Truthy(name) THEN name ELSE data[hid].name,
                                IF Truthy(location) THEN location
                                                    ELSE data[hid].location,
                                data[hid].total_rooms)
             IN  Return(save_data(fs, Hotel_FILE_NAME,
                            SetItem(data, hid, Hotel_to_dict(new_hotel))), TRUE)
        ELSE Return(fs, FALSE)

\* Hotel.modify_hotel
modify_hotel(fs, hotel_id, name, location) ==
    LET data == load_data(fs, Hotel_FILE_NAME)
        hid == str(hotel_id)
    IN  IF hid \in DOMAIN data
        THEN LET data1 == IF Truthy(name)
                          THEN [data EXCEPT ![hid].name = name]
                          ELSE data
                 data2 == IF Truthy(location)
                          THEN [data1 EXCEPT ![hid].location = location]
                          ELSE data1
             IN  Return(save_data(fs, Hotel_FILE_NAME, data2), TRUE)
        ELSE Return(fs, FALSE)

(***************************************************************************)
(* class Customer                                                          *)
(***************************************************************************)
\* Customer.__init__
Customer_init(customer_id, name, email) ==
    [customer_id |-> str(customer_id), name |-> name, email |-> email]

\* Customer.to_dict
Customer_to_dict(self) == [name |-> self.name, email |-> self.email]

\* Customer.create_customer
create_customer(fs, customer_id, name, email) ==
    LET data == load_data(fs, Customer_FILE_NAME) IN
    IF str(customer_id) \in DOMAIN data
    THEN Return(fs, FALSE)
    ELSE LET new_customer == Customer_init(customer_id, name, email)
             data2 == SetItem(data, str(customer_id),
                              Customer_to_dict(new_customer))
         IN  Return(save_data(fs, Customer_FILE_NAME, data2), TRUE)

\* Customer.delete_customer
delete_customer(fs, customer_id) ==
    LET data == load_data(fs, Customer_FILE_NAME) IN
    IF str(customer_id) \in DOMAIN data
    THEN Return(save_data(fs, Customer_FILE_NAME,
                          DelItem(data, str(customer_id))), TRUE)
    ELSE Return(fs, FALSE)

\* Customer.display_customer
CustomerNotFound == "Customer not found."
display_customer(fs, customer_id) ==
    LET data == load_data(fs, Customer_FILE_NAME) IN
    IF str(customer_id) \in DOMAIN data
    THEN Return(fs, [found |-> TRUE, record |-> data[str(customer_id)]])
    ELSE Return(fs, [found |-> FALSE, record |-> CustomerNotFound])

\* Customer.modify_customer
modify_customer(fs, customer_id, name, email) ==
    LET data == load_data(fs, Customer_FILE_NAME)
        cid == str(customer_id)
    IN  IF cid \in DOMAIN data
        THEN LET data1 == IF Truthy(name)
                          THEN [data EXCEPT ![cid].name = name]
                          ELSE data
                 data2 == IF Truthy(email)
                          THEN [data1 EXCEPT ![cid].email = email]
                          ELSE data1
             IN  Return(save_data(fs, Customer_FILE_NAME, data2), TRUE)
        ELSE Return(fs, FALSE)

(***************************************************************************)
(* class Reservation                                                       *)
(***************************************************************************)
\* create_reservation that does not save the decremented hotel snapshot
create_reservation_no_hotel_save(fs, res_id, customer_id, hotel_id) ==
    LET res_data == load_data(fs, Reservation_FILE_NAME)
        hotel_data == load_data(fs, Hotel_FILE_NAME)
    IN  IF str(res_id) \in DOMAIN res_data THEN Return(fs, FALSE)
        ELSE IF str(hotel_id) \notin DOMAIN hotel_data THEN Return(fs, FALSE)
        ELSE IF hotel_data[str(hotel_id)].available_rooms > 0
        THEN Return(save_data(fs, Reservation_FILE_NAME,
                        SetItem(res_data, str(res_id),
                                [customer_id |-> str(customer_id),
                                 hotel_id |-> str(hotel_id)])), TRUE)
        ELSE Return(fs, FALSE)

\* create_reservation that tests available_rooms >= 0 instead of > 0
create_reservation_ge_zero(fs, res_id, customer_id, hotel_id) ==
    LET res_data == load_data(fs, Reservation_FILE_NAME)
        hotel_data == load_data(fs, Hotel_FILE_NAME)
    IN  IF str(res_id) \in DOMAIN res_data THEN Return(fs, FALSE)
        ELSE IF str(hotel_id) \notin DOMAIN hotel_data THEN Return(fs, FALSE)
        ELSE IF hotel_data[str(hotel_id)].available_rooms >= 0
        THEN LET fs1 == save_data(fs, Hotel_FILE_NAME,
                            [hotel_data EXCEPT
                                 ![str(hotel_id)].available_rooms = @ - 1])
             IN  Return(save_data(fs1, Reservation_FILE_NAME,
                            SetItem(res_data, str(res_id),
                                    [customer_id |-> str(customer_id),
                                     hotel_id |-> str(hotel_id)])), TRUE)
        ELSE Return(fs, FALSE)

\* create_reservation without the duplicate check: an existing reservation
\* is replaced
create_reservation_no_duplicate_check(fs, res_id, customer_id, hotel_id) ==
    LET res_data == load_data(fs, Reservation_FILE_NAME)
        hotel_data == load_data(fs, Hotel_FILE_NAME)
    IN  IF str(hotel_id) \notin DOMAIN hotel_data THEN Return(fs, FALSE)
        ELSE IF hotel_data[str(hotel_id)].available_rooms > 0
        THEN LET fs1 == save_data(fs, Hotel_FILE_NAME,
                            [hotel_data EXCEPT
                                 ![str(hotel_id)].available_rooms = @ - 1])
             IN  Return(save_data(fs1, Reservation_FILE_NAME,
                            SetItem(res_data, str(res_id),
                                    [customer_id |-> str(customer_id),
                                     hotel_id |-> str(hotel_id)])), TRUE)
        ELSE Return(fs, FALSE)

\* create_reservation that decrements total_rooms instead of available_rooms
create_reservation_wrong_field(fs, res_id, customer_id, hotel_id) ==
    LET res_data == load_data(fs, Reservation_FILE_NAME)
        hotel_data == load_data(fs, Hotel_FILE_NAME)
    IN  IF str(res_id) \in DOMAIN res_data THEN Return(fs, FALSE)
        ELSE IF str(hotel_id) \notin DOMAIN hotel_data THEN Return(fs, FALSE)
        ELSE IF hotel_data[str(hotel_id)].available_rooms > 0
        THEN LET fs1 == save_data(fs, Hotel_FILE_NAME,
                            [hotel_data EXCEPT
                                 ![str(hotel_id)].total_rooms = @ - 1])
             IN  Return(save_data(fs1, Reservation_FILE_NAME,
                            SetItem(res_data, str(res_id),
                                    [customer_id |-> str(customer_id),
                                     hotel_id |-> str(hotel_id)])), TRUE)
        ELSE Return(fs, FALSE)

\* create_reservation that books a hotel that does not exist: the hotel
\* snapshot is left alone and the reservation is inserted
create_reservation_no_hotel_check(fs, res_id, customer_id, hotel_id) ==
    LET res_data == load_data(fs, Reservation_FILE_NAME)
        hotel_data == load_data(fs, Hotel_FILE_NAME)
        res_data2 == SetItem(res_data, str(res_id),
                             [customer_id |-> str(customer_id),
                              hotel_id |-> str(hotel_id)])
    IN  IF str(res_id) \in DOMAIN res_data THEN Return(fs, FALSE)
        ELSE IF str(hotel_id) \notin DOMAIN hotel_data
        THEN Return(save_data(fs, Reservation_FILE_NAME, res_data2), TRUE)
        ELSE IF hotel_data[str(hotel_id)].available_rooms > 0
        THEN LET fs1 == save_data(fs, Hotel_FILE_NAME,
                            [hotel_data EXCEPT
                                 ![str(hotel_id)].available_rooms = @ - 1])
             IN  Return(save_data(fs1, Reservation_FILE_NAME, res_data2), TRUE)
        ELSE Return(fs, FALSE)

\* create_reservation that refuses a customer_id that is no key of the
\* customer snapshot
create_reservation_checks_customer(fs, res_id, customer_id, hotel_id) ==
    LET res_data == load_data(fs, Reservation_FILE_NAME)
        hotel_data == load_data(fs, Hotel_FILE_NAME)
        customer_data == load_data(fs, Customer_FILE_NAME)
    IN  IF str(res_id) \in DOMAIN res_data THEN Return(fs, FALSE)
        ELSE IF str(customer_id) \notin DOMAIN customer_data
        THEN Return(fs, FALSE)
        ELSE IF str(hotel_id) \notin DOMAIN hotel_data THEN Return(fs, FALSE)
        ELSE IF hotel_data[str(hotel_id)].available_rooms > 0
        THEN LET fs1 == save_data(fs, Hotel_FILE_NAME,
                            [hotel_data EXCEPT
                                 ![str(hotel_id)].available_rooms = @ - 1])
             IN  Return(save_data(fs1, Reservation_FILE_NAME,
                            SetItem(res_data, str(res_id),
                                    [customer_id |-> str(customer_id),
                                     hotel_id |-> str(hotel_id)])), TRUE)
        ELSE Return(fs, FALSE)

\* Reservation.create_reservation
create_reservation(fs, res_id, customer_id, hotel_id) ==
    LET res_data == load_data(fs, Reservation_FILE_NAME) IN
    IF str(res_id) \in DOMAIN res_data
    THEN Return(fs, FALSE)
    ELSE
    LET hotel_data == load_data(fs, Hotel_FILE_NAME) IN
    IF str(hotel_id) \notin DOMAIN hotel_data
    THEN Return(fs, FALSE)
    ELSE
    IF hotel_data[str(hotel_id)].available_rooms > 0
    THEN LET hotel_data2 ==
                 [hotel_data EXCEPT ![str(hotel_id)].available_rooms = @ - 1]
             fs1 == save_data(fs, Hotel_FILE_NAME, hotel_data2)
             res_data2 ==
                 SetItem(res_data, str(res_id),
                         [customer_id |-> str(customer_id),
                          hotel_id |-> str(hotel_id)])
         IN  Return(save_data(fs1, Reservation_FILE_NAME, res_data2), TRUE)
    ELSE Return(fs, FALSE)

\* cancel_reservation that does not free the room
cancel_reservation_no_increment(fs, res_id) ==
    LET res_data == load_data(fs, Reservation_FILE_NAME) IN
    IF str(res_id) \notin DOMAIN res_data
    THEN Return(fs, FALSE)
    ELSE Return(save_data(fs, Reservation_FILE_NAME,
                          DelItem(res_data, str(res_id))), TRUE)

\* cancel_reservation that saves the ledger and returns True also when the
\* id is not in it
cancel_reservation_absent_ok(fs, res_id) ==
    LET res_data == load_data(fs, Reservation_FILE_NAME)
        hotel_data == load_data(fs, Hotel_FILE_NAME)
        hotel_id == IF str(res_id) \in DOMAIN res_data
                    THEN res_data[str(res_id)].hotel_id ELSE None
        fs1 == IF hotel_id \in DOMAIN hotel_data
               THEN save_data(fs, Hotel_FILE_NAME,
                        [hotel_data EXCEPT ![hotel_id].available_rooms = @ + 1])
               ELSE fs
    IN  Return(save_data(fs1, Reservation_FILE_NAME,
                         DelItem(res_data, str(res_id))), TRUE)

\* cancel_reservation that fails when the hotel of the reservation is gone
cancel_reservation_requires_hotel(fs, res_id) ==
    LET res_data == load_data(fs, Reservation_FILE_NAME)
        hotel_data == load_data(fs, Hotel_FILE_NAME)
    IN  IF str(res_id) \notin DOMAIN res_data THEN Return(fs, FALSE)
        ELSE IF res_data[str(res_id)].hotel_id \notin DOMAIN hotel_data
        THEN Return(fs, FALSE)
        ELSE LET hotel_id == res_data[str(res_id)].hotel_id
                 fs1 == save_data(fs, Hotel_FILE_NAME,
                            [hotel_data EXCEPT
                                 ![hotel_id].available_rooms = @ + 1])
             IN  Return(save_data(fs1, Reservation_FILE_NAME,
                                  DelItem(res_data, str(res_id))), TRUE)

\* cancel_reservation that frees a room in every hotel of the snapshot
cancel_reservation_frees_all(fs, res_id) ==
    LET res_data == load_data(fs, Reservation_FILE_NAME) IN
    IF str(res_id) \notin DOMAIN res_data
    THEN Return(fs, FALSE)
    ELSE
    LET hotel_id == res_data[str(res_id)].hotel_id
        hotel_data == load_data(fs, Hotel_FILE_NAME)
        fs1 == IF hotel_id \in DOMAIN hotel_data
               THEN save_data(fs, Hotel_FILE_NAME,
                        [h \in DOMAIN hotel_data |->
                            [hotel_data[h] EXCEPT !.available_rooms = @ + 1]])
               ELSE fs
    IN  Return(save_data(fs1, Reservation_FILE_NAME,
                         DelItem(res_data, str(res_id))), TRUE)

\* cancel_reservation that sets the free rooms of the hotel to its total less
\* the reservations that remain on it
cancel_reservation_recount(fs, res_id) ==
    LET res_data == load_data(fs, Reservation_FILE_NAME) IN
    IF str(res_id) \notin DOMAIN res_data
    THEN Return(fs, FALSE)
    ELSE
    LET hotel_id == res_data[str(res_id)].hotel_id
        hotel_data == load_data(fs, Hotel_FILE_NAME)
        left == DelItem(res_data, str(res_id))
        count == Cardinality({r \in DOMAIN left : left[r].hotel_id = hotel_id})
        fs1 == IF hotel_id \in DOMAIN hotel_data
               THEN save_data(fs, Hotel_FILE_NAME,
                        [hotel_data EXCEPT ![hotel_id].available_rooms =
                             hotel_data[hotel_id].total_rooms - count])
               ELSE fs
    IN  Return(save_data(fs1, Reservation_FILE_NAME, left), TRUE)

\* Reservation.cancel_reservation
cancel_reservation(fs, res_id) ==
    LET res_data == load_data(fs, Reservation_FILE_NAME) IN
    IF str(res_id) \notin DOMAIN res_data
    THEN Return(fs, FALSE)
    ELSE
    LET hotel_id == res_data[str(res_id)].hotel_id
        hotel_data == load_data(fs, Hotel_FILE_NAME)
        fs1 == IF hotel_id \in DOMAIN hotel_data
               THEN save_data(fs, Hotel_FILE_NAME,
                        [hotel_data EXCEPT ![hotel_id].available_rooms = @ + 1])
               ELSE fs
    IN  Return(save_data(fs1, Reservation_FILE_NAME,
                         DelItem(res_data, str(res_id))), TRUE)

(***************************************************************************)
(* The program as a state machine: one public operation at a time, each    *)
(* run to completion.                                                      *)
(***************************************************************************)
\* before the first call no snapshot file exists
Init ==
    /\ files = [f \in FileNames |-> MissingFile]
    /\ lastOp = [op |-> "none"]
    /\ procs = [p \in Procs |-> IdleProc]

Call_create_hotel ==
    \E hotel_id \in HotelIdValues, name \in CreateHotelNames,
       location \in CreateHotelLocations, rooms \in RoomValues :
        LET r == create_hotel(files, hotel_id, name, location, rooms) IN
        /\ files' = r.fs
        /\ lastOp' = [op |-> "create_hotel", hotel_id |-> str(hotel_id),
                      ret |-> r.ret]
        /\ UNCHANGED procs

Call_delete_hotel ==
    \E hotel_id \in HotelIdValues :
        LET r == delete_hotel(files, hotel_id) IN
        /\ files' = r.fs
        /\ lastOp' = [op |-> "delete_hotel", hotel_id |-> str(hotel_id),
                      ret |-> r.ret]
        /\ UNCHANGED procs

Call_display_hotel ==
    \E hotel_id \in HotelIdValues :
        LET r == display_hotel(files, hotel_id) IN
        /\ files' = r.fs
        /\ lastOp' = [op |-> "display_hotel", hotel_id |-> str(hotel_id),
                      ret |-> r.ret]
        /\ UNCHANGED procs

Call_modify_hotel ==
    \E hotel_id \in HotelIdValues, name \in ModifyHotelNames,
       location \in ModifyHotelLocations :
        LET r == modify_hotel(files, hotel_id, name, location) IN
        /\ files' = r.fs
        /\ lastOp' = [op |-> "modify_hotel", hotel_id |-> str(hotel_id),
                      ret |-> r.ret]
        /\ UNCHANGED procs

Call_create_customer ==
    \E customer_id \in CustomerIdValues, name \in CreateCustomerNames,
       email \in CreateCustomerEmails :
        LET r == create_customer(files, customer_id, name, email) IN
        /\ files' = r.fs
        /\ lastOp' = [op |-> "create_customer",
                      customer_id |-> str(customer_id), ret |-> r.ret]
        /\ UNCHANGED procs

Call_delete_customer ==
    \E customer_id \in CustomerIdValues :
        LET r == delete_customer(files, customer_id) IN
        /\ files' = r.fs
        /\ lastOp' = [op |-> "delete_customer",
                      customer_id |-> str(customer_id), ret |-> r.ret]
        /\ UNCHANGED procs

Call_display_customer ==
    \E customer_id \in CustomerIdValues :
        LET r == display_customer(files, customer_id) IN
        /\ files' = r.fs
        /\ lastOp' = [op |-> "display_customer",
                      customer_id |-> str(customer_id), ret |-> r.ret]
        /\ UNCHANGED procs

Call_modify_customer ==
    \E customer_id \in CustomerIdValues, name \in ModifyCustomerNames,
       email \in ModifyCustomerEmails :
        LET r == modify_customer(files, customer_id, name, email) IN
        /\ files' = r.fs
        /\ lastOp' = [op |-> "modify_customer",
                      customer_id |-> str(customer_id), ret |-> r.ret]
        /\ UNCHANGED procs

Call_create_reservation ==
    \E res_id \in ResIdValues, customer_id \in CustomerIdValues,
       hotel_id \in HotelIdValues :
        LET r == create_reservation(files, res_id, customer_id, hotel_id) IN
        /\ files' = r.fs
        /\ lastOp' = [op |-> "create_reservation", res_id |-> str(res_id),
                      customer_id |-> str(customer_id),
                      hotel_id |-> str(hotel_id), ret |-> r.ret]
        /\ UNCHANGED procs

Call_cancel_reservation ==
    \E res_id \in ResIdValues :
        LET r == cancel_reservation(files, res_id) IN
        /\ files' = r.fs
        /\ lastOp' = [op |-> "cancel_reservation", res_id |-> str(res_id),
                      ret |-> r.ret]
        /\ UNCHANGED procs

Next ==
    \/ Call_create_hotel
    \/ Call_delete_hotel
    \/ Call_display_hotel
    \/ Call_modify_hotel
    \/ Call_create_customer
    \/ Call_delete_customer
    \/ Call_display_customer
    \/ Call_modify_customer
    \/ Call_create_reservation
    \/ Call_cancel_reservation

Spec == Init /\ [][Next]_vars


(***************************************************************************)
(* The three snapshots as the operations read them, and the number of      *)
(* reservations of the ledger that reference a hotel.                      *)
(***************************************************************************)
HotelsOf(fs) == load_data(fs, Hotel_FILE_NAME)
CustomersOf(fs) == load_data(fs, Customer_FILE_NAME)
LedgerOf(fs) == load_data(fs, Reservation_FILE_NAME)

RefCount(fs, hid) ==
    Cardinality({r \in DOMAIN LedgerOf(fs) : LedgerOf(fs)[r].hotel_id = hid})

\* available = total - (reservations that reference the hotel), and every
\* reservation references a hotel of the snapshot
Consistent(fs) ==
    /\ \A hid \in DOMAIN HotelsOf(fs) :
           HotelsOf(fs)[hid].available_rooms =
               HotelsOf(fs)[hid].total_rooms - RefCount(fs, hid)
    /\ \A r \in DOMAIN LedgerOf(fs) :
           LedgerOf(fs)[r].hotel_id \in DOMAIN HotelsOf(fs)

\* the step deletes a hotel that a reservation references
DeletesReferencedHotel ==
    /\ lastOp'.op = "delete_hotel"
    /\ lastOp'.ret
    /\ RefCount(files, lastOp'.hotel_id) > 0

\* C1: starting from the empty store, every completed operation other than
\* the deletion of a hotel that a reservation references keeps, for every
\* hotel, available_rooms = total_rooms - (number of reservations whose
\* hotel_id is that hotel's id).
C1_AvailableIsTotalMinusReserved ==
    /\ Consistent(files)
    /\ [][(Consistent(files) /\ ~DeletesReferencedHotel)
              => Consistent(files')]_vars

\* a reservation has just been created on a hotel that already had one, and
\* the counters agree with the ledger
C1_Witness ==
    /\ lastOp.op = "create_reservation"
    /\ lastOp.ret
    /\ RefCount(files, lastOp.hotel_id) = 2
    /\ Consistent(files)

\* C2: for every hotel of the snapshot, 0 <= available_rooms <= total_rooms
\* after every completed operation.
C2_AvailableWithinTotal ==
    \A hid \in DOMAIN HotelsOf(files) :
        /\ 0 <= HotelsOf(files)[hid].available_rooms
        /\ HotelsOf(files)[hid].available_rooms
               <= HotelsOf(files)[hid].total_rooms

\* C3: create_reservation against an existing hotel whose available_rooms
\* is 0 returns False and leaves the three snapshot files as they were.
C3_NoRoomsFailsUnchanged ==
    [][(/\ lastOp'.op = "create_reservation"
        /\ lastOp'.hotel_id \in DOMAIN HotelsOf(files)
        /\ HotelsOf(files)[lastOp'.hotel_id].available_rooms = 0)
           => (lastOp'.ret = FALSE /\ files' = files)]_vars

\* create_reservation with a new id has just failed on a hotel that exists,
\* has rooms, and has none of them available
C3_Witness ==
    /\ lastOp.op = "create_reservation"
    /\ ~lastOp.ret
    /\ lastOp.res_id \notin DOMAIN LedgerOf(files)
    /\ lastOp.hotel_id \in DOMAIN HotelsOf(files)
    /\ HotelsOf(files)[lastOp.hotel_id].available_rooms = 0
    /\ HotelsOf(files)[lastOp.hotel_id].total_rooms > 0

\* C4: create_reservation with a res_id already in the ledger returns False
\* and leaves the three snapshot files as they were: the reservation keeps
\* its customer_id and hotel_id and no available_rooms changes.
C4_DuplicateFailsUnchanged ==
    [][(/\ lastOp'.op = "create_reservation"
        /\ lastOp'.res_id \in DOMAIN LedgerOf(files))
           => (lastOp'.ret = FALSE /\ files' = files)]_vars

\* create_reservation has just failed on an id of the ledger, the call
\* naming another hotel than the reservation's, one with free rooms
C4_Witness ==
    /\ lastOp.op = "create_reservation"
    /\ ~lastOp.ret
    /\ lastOp.res_id \in DOMAIN LedgerOf(files)
    /\ LedgerOf(files)[lastOp.res_id].hotel_id /= lastOp.hotel_id
    /\ lastOp.hotel_id \in DOMAIN HotelsOf(files)
    /\ HotelsOf(files)[lastOp.hotel_id].available_rooms > 0


(***************************************************************************)
(* Calls of create_reservation one after the other, with the ids of a      *)
(* sequence, for one customer and one hotel: the file system they leave    *)
(* and whether every call returned True.                                   *)
(***************************************************************************)
RECURSIVE CreateEach(_, _, _, _)
CreateEach(fs, res_ids, customer_id, hotel_id) ==
    IF res_ids = <<>>
    THEN [fs |-> fs, ok |-> TRUE]
    ELSE LET r == create_reservation(fs, Head(res_ids), customer_id, hotel_id)
             rest == CreateEach(r.fs, Tail(res_ids), customer_id, hotel_id)
         IN  [fs |-> rest.fs, ok |-> r.ret /\ rest.ok]

\* the non-empty sequences of reservation ids whose keys are distinct and
\* not in the ledger
NewResIdSeqs(fs) ==
    {ids \in UNION {[1..n -> ResIdValues] : n \in 1..Cardinality(ResIdValues)} :
        /\ \A i \in DOMAIN ids : str(ids[i]) \notin DOMAIN LedgerOf(fs)
        /\ \A i, j \in DOMAIN ids : i /= j => str(ids[i]) /= str(ids[j])}

\* C5: for a hotel with available_rooms = A, N <= A calls of
\* create_reservation with distinct new ids against it all return True and
\* leave its available_rooms at exactly A - N (N = 1: one successful
\* creation decrements the count by exactly 1).
C5_CreationsDecrementByOne ==
    \A hotel_id \in HotelIdValues, customer_id \in CustomerIdValues :
        str(hotel_id) \in DOMAIN HotelsOf(files) =>
            LET A == HotelsOf(files)[str(hotel_id)].available_rooms IN
            \A ids \in NewResIdSeqs(files) :
                Len(ids) <= A =>
                    LET r == CreateEach(files, ids, customer_id, hotel_id) IN
                    /\ r.ok
                    /\ HotelsOf(r.fs)[str(hotel_id)].available_rooms
                           = A - Len(ids)

\* the second of two reservations has been created on a hotel: two of its
\* rooms are no longer available
C5_Witness ==
    /\ lastOp.op = "create_reservation"
    /\ lastOp.ret
    /\ RefCount(files, lastOp.hotel_id) = 2
    /\ HotelsOf(files)[lastOp.hotel_id].available_rooms
           = HotelsOf(files)[lastOp.hotel_id].total_rooms - 2

\* C6: a successful create_reservation followed by cancel_reservation of
\* the same id: the cancellation returns True, and the hotel snapshot (so
\* the hotel's available_rooms) and the ledger are what they were before
\* the creation.
C6_CreateCancelRoundTrip ==
    \A res_id \in ResIdValues, customer_id \in CustomerIdValues,
       hotel_id \in HotelIdValues :
        LET created == create_reservation(files, res_id, customer_id, hotel_id)
            cancelled == cancel_reservation(created.fs, res_id)
        IN  created.ret =>
                /\ cancelled.ret
                /\ HotelsOf(cancelled.fs) = HotelsOf(files)
                /\ LedgerOf(cancelled.fs) = LedgerOf(files)

\* a reservation was created and cancelled: the ledger is empty again and
\* the hotel, which has rooms, has all of them available
C6_Witness ==
    /\ lastOp.op = "cancel_reservation"
    /\ lastOp.ret
    /\ LedgerOf(files) = EmptyDict
    /\ \E hid \in DOMAIN HotelsOf(files) :
           /\ HotelsOf(files)[hid].total_rooms > 0
           /\ HotelsOf(files)[hid].available_rooms
                  = HotelsOf(files)[hid].total_rooms

\* C7: create_reservation naming a hotel_id that is no key of the hotel
\* snapshot returns False and leaves the files as they were; and whenever
\* an operation inserts a reservation, its hotel_id is a key of the hotel
\* snapshot the operation started from.
C7_NoHotelFailsUnchanged ==
    [][/\ (/\ lastOp'.op = "create_reservation"
           /\ lastOp'.hotel_id \notin DOMAIN HotelsOf(files))
              => (lastOp'.ret = FALSE /\ files' = files)
       /\ \A r \in (DOMAIN LedgerOf(files')) \ (DOMAIN LedgerOf(files)) :
              LedgerOf(files')[r].hotel_id \in DOMAIN HotelsOf(files)]_vars

\* create_reservation with a new id has just failed for a hotel that does
\* not exist, while another hotel has rooms available
C7_Witness ==
    /\ lastOp.op = "create_reservation"
    /\ ~lastOp.ret
    /\ lastOp.res_id \notin DOMAIN LedgerOf(files)
    /\ lastOp.hotel_id \notin DOMAIN HotelsOf(files)
    /\ \E hid \in DOMAIN HotelsOf(files) :
           HotelsOf(files)[hid].available_rooms > 0

\* C8: cancel_reservation with a res_id that is not in the ledger returns
\* False and leaves the files as they were.
C8_CancelAbsentFailsUnchanged ==
    [][(/\ lastOp'.op = "cancel_reservation"
        /\ lastOp'.res_id \notin DOMAIN LedgerOf(files))
           => (lastOp'.ret = FALSE /\ files' = files)]_vars

\* cancel_reservation has just failed for an id that is not in the ledger,
\* while the ledger holds another reservation on an existing hotel
C8_Witness ==
    /\ lastOp.op = "cancel_reservation"
    /\ ~lastOp.ret
    /\ lastOp.res_id \notin DOMAIN LedgerOf(files)
    /\ \E r \in DOMAIN LedgerOf(files) :
           LedgerOf(files)[r].hotel_id \in DOMAIN HotelsOf(files)

\* C9: create_hotel (create_customer) with an id that is no key returns
\* True and inserts the record, a hotel with rooms T getting total_rooms =
\* available_rooms = T, the other records unchanged; with an id that is a
\* key it returns False and leaves the files as they were.
C9_CreateInsertsOrNoOp ==
    /\ \A hotel_id \in HotelIdValues, name \in CreateHotelNames,
          location \in CreateHotelLocations, rooms \in RoomValues :
           LET r == create_hotel(files, hotel_id, name, location, rooms) IN
           IF str(hotel_id) \in DOMAIN HotelsOf(files)
           THEN r.ret = FALSE /\ r.fs = files
           ELSE /\ r.ret = TRUE
                /\ HotelsOf(r.fs) =
                       SetItem(HotelsOf(files), str(hotel_id),
                               [name |-> name, location |-> location,
                                total_rooms |-> rooms,
                                available_rooms |-> rooms])
                /\ CustomersOf(r.fs) = CustomersOf(files)
                /\ LedgerOf(r.fs) = LedgerOf(files)
    /\ \A customer_id \in CustomerIdValues, name \in CreateCustomerNames,
          email \in CreateCustomerEmails :
           LET r == create_customer(files, customer_id, name, email) IN
           IF str(customer_id) \in DOMAIN CustomersOf(files)
           THEN r.ret = FALSE /\ r.fs = files
           ELSE /\ r.ret = TRUE
                /\ CustomersOf(r.fs) =
                       SetItem(CustomersOf(files), str(customer_id),
                               [name |-> name, email |-> email])
                /\ HotelsOf(r.fs) = HotelsOf(files)
                /\ LedgerOf(r.fs) = LedgerOf(files)

\* create_hotel has just failed for the id of a hotel that was renamed and
\* has a room reserved
C9_Witness ==
    /\ lastOp.op = "create_hotel"
    /\ ~lastOp.ret
    /\ HotelsOf(files)[lastOp.hotel_id].name = "Grand Plaza"
    /\ HotelsOf(files)[lastOp.hotel_id].available_rooms
           < HotelsOf(files)[lastOp.hotel_id].total_rooms

\* C10: delete_hotel with an id that is no key returns False and leaves the
\* files as they were; with an id that is a key it returns True and removes
\* that record only, whether or not reservations reference the hotel, and
\* leaves the ledger and the customer file as they were.
C10_DeleteUnconditional ==
    [][lastOp'.op = "delete_hotel" =>
          IF lastOp'.hotel_id \in DOMAIN HotelsOf(files)
          THEN /\ lastOp'.ret = TRUE
               /\ HotelsOf(files') = DelItem(HotelsOf(files), lastOp'.hotel_id)
               /\ files'[Reservation_FILE_NAME] = files[Reservation_FILE_NAME]
               /\ files'[Customer_FILE_NAME] = files[Customer_FILE_NAME]
          ELSE lastOp'.ret = FALSE /\ files' = files]_vars

\* a hotel has just been deleted and a reservation of the ledger still
\* references it
C10_Witness ==
    /\ lastOp.op = "delete_hotel"
    /\ lastOp.ret
    /\ lastOp.hotel_id \notin DOMAIN HotelsOf(files)
    /\ \E r \in DOMAIN LedgerOf(files) :
           LedgerOf(files)[r].hotel_id = lastOp.hotel_id


\* C11: cancel_reservation of a reservation whose hotel_id is no key of the
\* hotel snapshot returns True, removes that reservation only from the
\* ledger and leaves the hotel file and the customer file as they were.
C11_CancelOrphanSkipsIncrement ==
    [][(/\ lastOp'.op = "cancel_reservation"
        /\ lastOp'.res_id \in DOMAIN LedgerOf(files)
        /\ LedgerOf(files)[lastOp'.res_id].hotel_id
               \notin DOMAIN HotelsOf(files))
           => /\ lastOp'.ret = TRUE
              /\ LedgerOf(files') = DelItem(LedgerOf(files), lastOp'.res_id)
              /\ files'[Hotel_FILE_NAME] = files[Hotel_FILE_NAME]
              /\ files'[Customer_FILE_NAME] = files[Customer_FILE_NAME]]_vars

\* a reservation has just been cancelled while the hotel snapshot holds no
\* hotel at all (its hotel was deleted), and another reservation remains
C11_Witness ==
    /\ lastOp.op = "cancel_reservation"
    /\ lastOp.ret
    /\ lastOp.res_id \notin DOMAIN LedgerOf(files)
    /\ files[Hotel_FILE_NAME].exists
    /\ HotelsOf(files) = EmptyDict
    /\ LedgerOf(files) /= EmptyDict

\* values modify_hotel is called with in C12, those of Call_modify_hotel
\* and a location no hotel was created with
AnyHotelNames == ModifyHotelNames \cup CreateHotelNames
AnyHotelLocations == ModifyHotelLocations \cup {"", "Boston"}

\* C12: modify_hotel with an id that is no key returns False and leaves the
\* files as they were; with an id that is a key it returns True, a field
\* (name, location) that was not supplied (None) keeps its value, a field
\* that changes gets the value supplied, total_rooms and available_rooms
\* of the hotel keep their values, and the other hotels and the other files
\* are as they were.
C12_ModifyNameLocationOnly ==
    \A hotel_id \in HotelIdValues, name \in AnyHotelNames,
       location \in AnyHotelLocations :
        LET r == modify_hotel(files, hotel_id, name, location)
            hid == str(hotel_id)
            old == HotelsOf(files)
            new == HotelsOf(r.fs)
        IN  IF hid \notin DOMAIN old
            THEN r.ret = FALSE /\ r.fs = files
            ELSE /\ r.ret = TRUE
                 /\ DOMAIN new = DOMAIN old
                 /\ name = None => new[hid].name = old[hid].name
                 /\ location = None => new[hid].location = old[hid].location
                 /\ new[hid].name \in {old[hid].name, name}
                 /\ new[hid].location \in {old[hid].location, location}
                 /\ Truthy(name) => new[hid].name = name
                 /\ Truthy(location) => new[hid].location = location
                 /\ new[hid].total_rooms = old[hid].total_rooms
                 /\ new[hid].available_rooms = old[hid].available_rooms
                 /\ \A other \in (DOMAIN old) \ {hid} : new[other] = old[other]
                 /\ r.fs[Customer_FILE_NAME] = files[Customer_FILE_NAME]
                 /\ r.fs[Reservation_FILE_NAME] = files[Reservation_FILE_NAME]

\* modify_hotel has just returned True for a hotel that was renamed and has
\* a room reserved, another hotel being in the snapshot
C12_Witness ==
    /\ lastOp.op = "modify_hotel"
    /\ lastOp.ret
    /\ HotelsOf(files)[lastOp.hotel_id].name = "Grand Plaza"
    /\ HotelsOf(files)[lastOp.hotel_id].available_rooms
           < HotelsOf(files)[lastOp.hotel_id].total_rooms
    /\ Cardinality(DOMAIN HotelsOf(files)) = 2


\* C15: a reservation of the ledger stays in it, with the same customer_id
\* and hotel_id, through every operation except a cancel_reservation of its
\* id, which returns True and removes it; and an id enters the ledger only
\* by a create_reservation of that id that returns True.
C15_ReservationLifeCycle ==
    [][/\ \A r \in DOMAIN LedgerOf(files) :
              IF lastOp'.op = "cancel_reservation" /\ lastOp'.res_id = r
              THEN lastOp'.ret = TRUE /\ r \notin DOMAIN LedgerOf(files')
              ELSE /\ r \in DOMAIN LedgerOf(files')
                   /\ LedgerOf(files')[r] = LedgerOf(files)[r]
       /\ \A r \in (DOMAIN LedgerOf(files')) \ (DOMAIN LedgerOf(files)) :
              /\ lastOp'.op = "create_reservation"
              /\ lastOp'.res_id = r
              /\ lastOp'.ret = TRUE
              /\ LedgerOf(files')[r] = [customer_id |-> lastOp'.customer_id,
                                        hotel_id |-> lastOp'.hotel_id]]_vars

\* a reservation has just been cancelled while another one, whose hotel
\* was deleted, is still in the ledger
C15_Witness ==
    /\ lastOp.op = "cancel_reservation"
    /\ lastOp.ret
    /\ lastOp.res_id \notin DOMAIN LedgerOf(files)
    /\ HotelsOf(files) /= EmptyDict
    /\ \E r \in DOMAIN LedgerOf(files) :
           LedgerOf(files)[r].hotel_id \notin DOMAIN HotelsOf(files)

\* C16: create, delete, modify and display of a customer leave the hotel
\* file and the reservation file as they were; create_reservation does not
\* depend on the customer file (it returns the same value and writes the
\* same hotel and reservation files when no customer file exists) and
\* leaves it as it was.
C16_CustomersIndependent ==
    /\ \A customer_id \in CustomerIdValues :
           /\ \A name \in CreateCustomerNames, email \in CreateCustomerEmails :
                  LET r == create_customer(files, customer_id, name, email) IN
                  /\ r.fs[Hotel_FILE_NAME] = files[Hotel_FILE_NAME]
                  /\ r.fs[Reservation_FILE_NAME] = files[Reservation_FILE_NAME]
           /\ \A name \in ModifyCustomerNames, email \in ModifyCustomerEmails :
                  LET r == modify_customer(files, customer_id, name, email) IN
                  /\ r.fs[Hotel_FILE_NAME] = files[Hotel_FILE_NAME]
                  /\ r.fs[Reservation_FILE_NAME] = files[Reservation_FILE_NAME]
           /\ LET r == delete_customer(files, customer_id) IN
                  /\ r.fs[Hotel_FILE_NAME] = files[Hotel_FILE_NAME]
                  /\ r.fs[Reservation_FILE_NAME] = files[Reservation_FILE_NAME]
           /\ LET r == display_customer(files, customer_id) IN r.fs = files
    /\ \A res_id \in ResIdValues, customer_id \in CustomerIdValues,
          hotel_id \in HotelIdValues :
           LET with == create_reservation(files, res_id, customer_id, hotel_id)
               without ==
                   create_reservation(
                       [files EXCEPT ![Customer_FILE_NAME] = MissingFile],
                       res_id, customer_id, hotel_id)
           IN  /\ with.ret = without.ret
               /\ with.fs[Hotel_FILE_NAME] = without.fs[Hotel_FILE_NAME]
               /\ with.fs[Reservation_FILE_NAME]
                      = without.fs[Reservation_FILE_NAME]
               /\ with.fs[Customer_FILE_NAME] = files[Customer_FILE_NAME]

\* a customer has just been deleted and a reservation of the ledger still
\* names it
C16_Witness ==
    /\ lastOp.op = "delete_customer"
    /\ lastOp.ret
    /\ lastOp.customer_id \notin DOMAIN CustomersOf(files)
    /\ \E r \in DOMAIN LedgerOf(files) :
           LedgerOf(files)[r].customer_id = lastOp.customer_id


(***************************************************************************)
(* create_reservation and cancel_reservation step by step.  Each of them   *)
(* loads the ledger, then loads the hotel snapshot, then saves the hotel   *)
(* snapshot, then saves the ledger: four accesses to the files, between    *)
(* which the process can stop for good, another process can run, and the   *)
(* files can be edited from outside.                                       *)
(***************************************************************************)
\* ids and rooms the step-by-step operations are called with
ProcHotelIdValues == {[int |-> 1]}
ProcCustomerIdValues == {[int |-> 1]}
ProcResIdValues == ResIdValues
ProcRoomValues == RoomValues

\* a file whose text does not parse; data is what can still be read in it
UnparsableFile(data) == [exists |-> TRUE, valid |-> FALSE, data |-> data]

\* a save to do: the file and the data to dump into it
Write(filename, data) == [filename |-> filename, data |-> data]

\* create_reservation, after the ledger is loaded: the duplicate check
create_reservation_check_id(res_id, res_data) ==
    IF str(res_id) \in DOMAIN res_data THEN "return False" ELSE "continue"

\* the saves of create_reservation in the order it does them, ledger first
create_reservation_writes_ledger_first(res_id, customer_id, hotel_id, res_data, hotel_data) ==
    << Write(Reservation_FILE_NAME,
             SetItem(res_data, str(res_id),
                     [customer_id |-> str(customer_id),
                      hotel_id |-> str(hotel_id)])),
       Write(Hotel_FILE_NAME,
             [hotel_data EXCEPT ![str(hotel_id)].available_rooms = @ - 1]) >>

\* the saves of create_reservation in the order it does them: the hotel
\* snapshot with the room taken, then the ledger with the reservation
create_reservation_writes(res_id, customer_id, hotel_id, res_data, hotel_data) ==
    << Write(Hotel_FILE_NAME,
             [hotel_data EXCEPT ![str(hotel_id)].available_rooms = @ - 1]),
       Write(Reservation_FILE_NAME,
             SetItem(res_data, str(res_id),
                     [customer_id |-> str(customer_id),
                      hotel_id |-> str(hotel_id)])) >>

\* the availability check of create_reservation with >= 0 in place of > 0
create_reservation_check_hotel_ge_zero(res_id, customer_id, hotel_id, res_data, hotel_data) ==
    IF str(hotel_id) \notin DOMAIN hotel_data
    THEN [next |-> "return False", writes |-> <<>>]
    ELSE IF "available_rooms" \notin DOMAIN hotel_data[str(hotel_id)]
    THEN [next |-> "raise", writes |-> <<>>]
    ELSE IF hotel_data[str(hotel_id)].available_rooms >= 0
    THEN [next |-> "save",
          writes |-> create_reservation_writes(res_id, customer_id, hotel_id,
                                               res_data, hotel_data)]
    ELSE [next |-> "return False", writes |-> <<>>]

\* create_reservation, after the hotel snapshot is loaded: what it does
\* next.  A record without available_rooms raises KeyError.
create_reservation_check_hotel(res_id, customer_id, hotel_id, res_data, hotel_data) ==
    IF str(hotel_id) \notin DOMAIN hotel_data
    THEN [next |-> "return False", writes |-> <<>>]
    ELSE IF "available_rooms" \notin DOMAIN hotel_data[str(hotel_id)]
    THEN [next |-> "raise", writes |-> <<>>]
    ELSE IF hotel_data[str(hotel_id)].available_rooms > 0
    THEN [next |-> "save",
          writes |-> create_reservation_writes(res_id, customer_id, hotel_id,
                                               res_data, hotel_data)]
    ELSE [next |-> "return False", writes |-> <<>>]

\* cancel_reservation, after the ledger is loaded: the not-found check and
\* the hotel_id of the reservation.  A record without hotel_id raises
\* KeyError.
cancel_reservation_lookup(res_id, res_data) ==
    IF str(res_id) \notin DOMAIN res_data
    THEN [next |-> "return False", hotel_id |-> ""]
    ELSE IF "hotel_id" \notin DOMAIN res_data[str(res_id)]
    THEN [next |-> "raise", hotel_id |-> ""]
    ELSE [next |-> "continue", hotel_id |-> res_data[str(res_id)].hotel_id]

\* the saves of cancel_reservation in the order it does them, ledger first
cancel_reservation_writes_ledger_first(res_id, hotel_id, res_data, hotel_data) ==
    << Write(Reservation_FILE_NAME, DelItem(res_data, str(res_id))) >>
    \o (IF hotel_id \in DOMAIN hotel_data
        THEN << Write(Hotel_FILE_NAME,
                      [hotel_data EXCEPT ![hotel_id].available_rooms = @ + 1]) >>
        ELSE << >>)

\* the saves of cancel_reservation in the order it does them: the hotel
\* snapshot with the room freed, if the hotel is in it, then the ledger
\* without the reservation
cancel_reservation_writes(res_id, hotel_id, res_data, hotel_data) ==
    (IF hotel_id \in DOMAIN hotel_data
     THEN << Write(Hotel_FILE_NAME,
                   [hotel_data EXCEPT ![hotel_id].available_rooms = @ + 1]) >>
     ELSE << >>)
    \o << Write(Reservation_FILE_NAME, DelItem(res_data, str(res_id))) >>

\* cancel_reservation, after the hotel snapshot is loaded: what it does
\* next.  A record without available_rooms raises KeyError.
cancel_reservation_free_room(res_id, hotel_id, res_data, hotel_data) ==
    IF /\ hotel_id \in DOMAIN hotel_data
       /\ "available_rooms" \notin DOMAIN hotel_data[hotel_id]
    THEN [next |-> "raise", writes |-> <<>>]
    ELSE [next |-> "save",
          writes |-> cancel_reservation_writes(res_id, hotel_id,
                                               res_data, hotel_data)]

\* the process after its operation ended: what it ran and how it ended
\* (returned, raised), the data it held dropped
Ended(pr, outcome, ret) ==
    [IdleProc EXCEPT !.op = pr.op, !.res_id = pr.res_id,
                     !.customer_id = pr.customer_id,
                     !.hotel_id = pr.hotel_id, !.failed = pr.failed,
                     !.outcome = outcome, !.ret = ret]

\* a process calls create_hotel, which runs to its end
P_create_hotel(p) ==
    /\ procs[p].pc = "idle"
    /\ \E hotel_id \in ProcHotelIdValues, name \in CreateHotelNames,
          location \in CreateHotelLocations, rooms \in ProcRoomValues :
           LET r == create_hotel(files, hotel_id, name, location, rooms) IN
           /\ files' = r.fs
           /\ procs' = [procs EXCEPT ![p] =
                  Ended([IdleProc EXCEPT !.op = "create_hotel",
                                         !.hotel_id = str(hotel_id)],
                        "returned", r.ret)]
    /\ UNCHANGED lastOp

\* a process calls create_reservation: it loads the ledger and checks the id
P_begin_create_reservation(p) ==
    /\ procs[p].pc = "idle"
    /\ \E res_id \in ProcResIdValues, customer_id \in ProcCustomerIdValues,
          hotel_id \in ProcHotelIdValues :
           LET res_data == load_data(files, Reservation_FILE_NAME)
               pr == [IdleProc EXCEPT !.op = "create_reservation",
                                      !.res_id = str(res_id),
                                      !.customer_id = str(customer_id),
                                      !.hotel_id = str(hotel_id)]
           IN  procs' = [procs EXCEPT ![p] =
                   IF create_reservation_check_id(res_id, res_data)
                          = "return False"
                   THEN Ended(pr, "returned", FALSE)
                   ELSE [pr EXCEPT !.pc = "load_hotels",
                                   !.res_data = res_data]]
    /\ UNCHANGED <<files, lastOp>>

\* the rooms a hotel can be left with beyond its total, by cancellations
\* that were cut short or overwritten, before cancel_reservation is called
\* no more
MaxDrift == 1

\* no hotel has MaxDrift free rooms beyond its total
WithinDrift(fs) ==
    LET hotel_data == load_data(fs, Hotel_FILE_NAME) IN
    \A h \in DOMAIN hotel_data :
        "available_rooms" \in DOMAIN hotel_data[h] =>
            hotel_data[h].available_rooms
                < hotel_data[h].total_rooms + MaxDrift

\* a process calls cancel_reservation: it loads the ledger and looks the
\* reservation up
P_begin_cancel_reservation(p) ==
    /\ procs[p].pc = "idle"
    /\ WithinDrift(files)
    /\ \E res_id \in ProcResIdValues :
           LET res_data == load_data(files, Reservation_FILE_NAME)
               found == cancel_reservation_lookup(res_id, res_data)
               pr == [IdleProc EXCEPT !.op = "cancel_reservation",
                                      !.res_id = str(res_id)]
           IN  procs' = [procs EXCEPT ![p] =
                   CASE found.next = "return False" ->
                            Ended(pr, "returned", FALSE)
                     [] found.next = "raise" -> Ended(pr, "raised", FALSE)
                     [] OTHER -> [pr EXCEPT !.pc = "load_hotels",
                                            !.hotel_id = found.hotel_id,
                                            !.res_data = res_data]]
    /\ UNCHANGED <<files, lastOp>>

\* the process loads the hotel snapshot and decides what to do
P_load_hotels(p) ==
    /\ procs[p].pc = "load_hotels"
    /\ LET pr == procs[p]
           hotel_data == load_data(files, Hotel_FILE_NAME)
           \* the ids are strs already: str() leaves them as they are
           step == IF pr.op = "create_reservation"
                   THEN create_reservation_check_hotel(
                            [str |-> pr.res_id], [str |-> pr.customer_id],
                            [str |-> pr.hotel_id], pr.res_data, hotel_data)
                   ELSE cancel_reservation_free_room(
                            [str |-> pr.res_id], pr.hotel_id,
                            pr.res_data, hotel_data)
       IN  procs' = [procs EXCEPT ![p] =
               CASE step.next = "return False" -> Ended(pr, "returned", FALSE)
                 [] step.next = "raise" -> Ended(pr, "raised", FALSE)
                 [] OTHER -> [pr EXCEPT !.pc = "save",
                                        !.hotel_data = hotel_data,
                                        !.writes = step.writes]]
    /\ UNCHANGED <<files, lastOp>>

\* the process after one of its saves: it goes on to the next save, and
\* returns True after the last one
AfterSave(pr) ==
    IF Len(pr.writes) = 1
    THEN Ended(pr, "returned", TRUE)
    ELSE [pr EXCEPT !.writes = Tail(pr.writes)]

\* the process does its next save
P_save(p) ==
    /\ procs[p].pc = "save"
    /\ LET w == Head(procs[p].writes) IN
       files' = save_data(files, w.filename, w.data)
    /\ procs' = [procs EXCEPT ![p] = AfterSave(procs[p])]
    /\ UNCHANGED lastOp

\* the process stops for good in the middle of its operation; what it held
\* and the saves it had still to do are kept for the record
P_crash(p) ==
    /\ procs[p].pc \in {"load_hotels", "save"}
    /\ procs' = [procs EXCEPT ![p] =
                     [procs[p] EXCEPT !.pc = "idle", !.outcome = "crashed"]]
    /\ UNCHANGED <<files, lastOp>>

\* One process, whose operations can stop between any two file accesses.
CrashProcs == {"p1"}

NextCrash ==
    \/ \E p \in CrashProcs : P_create_hotel(p)
    \/ \E p \in CrashProcs : P_begin_create_reservation(p)
    \/ \E p \in CrashProcs : P_begin_cancel_reservation(p)
    \/ \E p \in CrashProcs : P_load_hotels(p)
    \/ \E p \in CrashProcs : P_save(p)
    \/ \E p \in CrashProcs : P_crash(p)

SpecCrash == Init /\ [][NextCrash]_vars

\* Two processes, the file accesses of their operations interleaved.
NextConc ==
    \/ \E p \in Procs : P_create_hotel(p)
    \/ \E p \in Procs : P_begin_create_reservation(p)
    \/ \E p \in Procs : P_begin_cancel_reservation(p)
    \/ \E p \in Procs : P_load_hotels(p)
    \/ \E p \in Procs : P_save(p)

SpecConc == Init /\ [][NextConc]_vars

\* the hotel snapshot the process loaded, with delta added to the free rooms
\* of the hotel of its operation
LoadedHotelsPlus(pr, delta) ==
    [pr.hotel_data EXCEPT ![pr.hotel_id].available_rooms = @ + delta]

\* the process is in the middle of the operation, or was stopped there
CutShort(pr, op) ==
    /\ pr.op = op
    /\ pr.pc /= "idle" \/ pr.outcome = "crashed"

\* C17: create_reservation saves the hotel snapshot before the ledger.  While
\* it runs, and after it was stopped at any point, the reservation is not in
\* the ledger, which is as it was loaded; before the first save the hotel
\* snapshot is as loaded, and between the two saves it is as loaded with one
\* room less for the hotel, so that a hotel that had
\* available = total - count has available = total - count - 1.
C17_CrashBetweenCreateSaves ==
    \A p \in CrashProcs :
        LET pr == procs[p] IN
        CutShort(pr, "create_reservation") =>
            /\ pr.res_id \notin DOMAIN LedgerOf(files)
            /\ LedgerOf(files) = pr.res_data
            /\ Len(pr.writes) = 2 => HotelsOf(files) = pr.hotel_data
            /\ Len(pr.writes) = 1 =>
                   /\ HotelsOf(files) = LoadedHotelsPlus(pr, -1)
                   /\ LET before == pr.hotel_data[pr.hotel_id]
                          after == HotelsOf(files)[pr.hotel_id]
                          count == RefCount(files, pr.hotel_id)
                      IN  before.available_rooms = before.total_rooms - count
                              => after.available_rooms
                                     = after.total_rooms - count - 1

\* create_reservation was stopped between its two saves, on a hotel that had
\* available = total - count
C17_Witness ==
    \E p \in CrashProcs :
        LET pr == procs[p] IN
        /\ pr.op = "create_reservation"
        /\ pr.outcome = "crashed"
        /\ Len(pr.writes) = 1
        /\ pr.hotel_data[pr.hotel_id].available_rooms =
               pr.hotel_data[pr.hotel_id].total_rooms
                   - RefCount(files, pr.hotel_id)
        /\ HotelsOf(files)[pr.hotel_id].available_rooms =
               HotelsOf(files)[pr.hotel_id].total_rooms
                   - RefCount(files, pr.hotel_id) - 1

\* C18: cancel_reservation saves the hotel snapshot before the ledger.
\* Between the two saves, and after it was stopped there, the reservation is
\* still in the ledger and the hotel has one free room more than was loaded;
\* cancel_reservation of the same id then returns True, removes the
\* reservation and leaves the hotel with two free rooms more than were
\* loaded.
C18_CrashBetweenCancelSaves ==
    \A p \in CrashProcs :
        LET pr == procs[p] IN
        (/\ CutShort(pr, "cancel_reservation")
         /\ Len(pr.writes) = 1
         /\ pr.hotel_id \in DOMAIN pr.hotel_data) =>
            /\ pr.res_id \in DOMAIN LedgerOf(files)
            /\ LedgerOf(files) = pr.res_data
            /\ HotelsOf(files) = LoadedHotelsPlus(pr, 1)
            /\ LET again == cancel_reservation(files, [str |-> pr.res_id]) IN
               /\ again.ret = TRUE
               /\ pr.res_id \notin DOMAIN LedgerOf(again.fs)
               /\ HotelsOf(again.fs) = LoadedHotelsPlus(pr, 2)

\* a cancel_reservation has returned True and left a hotel with more free
\* rooms than it has rooms: the room of a reservation was freed twice
C18_Witness ==
    \E p \in CrashProcs :
        /\ procs[p].op = "cancel_reservation"
        /\ procs[p].outcome = "returned"
        /\ procs[p].ret = TRUE
        /\ procs[p].res_id \notin DOMAIN LedgerOf(files)
        /\ \E h \in DOMAIN HotelsOf(files) :
               HotelsOf(files)[h].available_rooms
                   > HotelsOf(files)[h].total_rooms

\* C19: no lock is taken.  Every save of a process replaces the file by the
\* copy the process loaded earlier with its own change made to it, whatever
\* another process has saved since: the last writer wins.
C19_LastWriterWins ==
    [][\A p \in Procs :
          (procs[p].pc = "save" /\ procs'[p] /= procs[p]) =>
              LET pr == procs[p]
                  creating == pr.op = "create_reservation"
              IN
              \/ /\ files'[Hotel_FILE_NAME] =
                        JsonFile(LoadedHotelsPlus(pr, IF creating THEN -1
                                                                  ELSE 1))
                 /\ files'[Reservation_FILE_NAME] = files[Reservation_FILE_NAME]
                 /\ procs'[p].pc = "save"
              \/ /\ files'[Reservation_FILE_NAME] =
                        JsonFile(IF creating
                                 THEN SetItem(pr.res_data, pr.res_id,
                                              [customer_id |-> pr.customer_id,
                                               hotel_id |-> pr.hotel_id])
                                 ELSE DelItem(pr.res_data, pr.res_id))
                 /\ files'[Hotel_FILE_NAME] = files[Hotel_FILE_NAME]
                 /\ procs'[p].ret = TRUE
      ]_vars

\* two create_reservation calls with distinct ids have both returned True on
\* a hotel of one room, and both reservations are in the ledger
C19_Witness ==
    /\ procs["p1"].op = "create_reservation"
    /\ procs["p2"].op = "create_reservation"
    /\ procs["p1"].outcome = "returned" /\ procs["p1"].ret = TRUE
    /\ procs["p2"].outcome = "returned" /\ procs["p2"].ret = TRUE
    /\ procs["p1"].res_id /= procs["p2"].res_id
    /\ procs["p1"].hotel_id = procs["p2"].hotel_id
    /\ LET h == procs["p1"].hotel_id IN
       /\ h \in DOMAIN HotelsOf(files)
       /\ HotelsOf(files)[h].total_rooms = 1
       /\ HotelsOf(files)[h].available_rooms = 0
       /\ {procs["p1"].res_id, procs["p2"].res_id} \subseteq DOMAIN LedgerOf(files)
       /\ RefCount(files, h) = 2

(***************************************************************************)
(* Faults: a save that fails, and snapshot files edited from outside, so   *)
(* that they do not parse or their records have lost their fields.         *)
(***************************************************************************)
\* One process, with saves that can fail and files that can be damaged.
FaultProcs == {"p1"}

\* the ways open(filename, 'w') / json.dump can fail
SaveFailures == {"not opened", "cut short"}

\* DataManager.save_data when the write fails: the exception is caught and
\* printed; the file is as it was if it could not be opened, and holds the
\* beginning of the dump, which does not parse, if the dump was cut short
save_data_fails(fs, filename, data, how) ==
    IF how = "not opened"
    THEN fs
    ELSE [fs EXCEPT ![filename] = UnparsableFile(data)]

\* a save whose failure is raised to the caller
P_save_fails_raises(p) ==
    /\ procs[p].pc = "save"
    /\ \E how \in SaveFailures :
           LET w == Head(procs[p].writes) IN
           files' = save_data_fails(files, w.filename, w.data, how)
    /\ procs' = [procs EXCEPT ![p] =
           Ended([procs[p] EXCEPT
                      !.failed = @ \cup {Head(procs[p].writes).filename}],
                 "raised", FALSE)]
    /\ UNCHANGED lastOp

\* the next save of the process fails: save_data returns normally and the
\* operation goes on
P_save_fails(p) ==
    /\ procs[p].pc = "save"
    /\ \E how \in SaveFailures :
           LET w == Head(procs[p].writes) IN
           files' = save_data_fails(files, w.filename, w.data, how)
    /\ procs' = [procs EXCEPT ![p] =
           AfterSave([procs[p] EXCEPT
                          !.failed = @ \cup {Head(procs[p].writes).filename}])]
    /\ UNCHANGED lastOp

\* the files an outside edit damages
DamagedFileNames == {Hotel_FILE_NAME, Reservation_FILE_NAME}

\* a snapshot file is edited so that it does not parse any more
Env_corrupt(f) ==
    /\ files[f].exists /\ files[f].valid
    /\ files' = [files EXCEPT ![f] = UnparsableFile(files[f].data)]
    /\ UNCHANGED <<lastOp, procs>>

\* a snapshot file is edited so that its records are empty mappings
Env_strip(f) ==
    /\ files[f].exists /\ files[f].valid
    /\ \E k \in DOMAIN files[f].data : files[f].data[k] /= EmptyDict
    /\ files' = [files EXCEPT ![f] =
                     JsonFile([k \in DOMAIN files[f].data |-> EmptyDict])]
    /\ UNCHANGED <<lastOp, procs>>

NextFaults ==
    \/ \E p \in FaultProcs : P_create_hotel(p)
    \/ \E p \in FaultProcs : P_begin_create_reservation(p)
    \/ \E p \in FaultProcs : P_begin_cancel_reservation(p)
    \/ \E p \in FaultProcs : P_load_hotels(p)
    \/ \E p \in FaultProcs : P_save(p)
    \/ \E p \in FaultProcs : P_save_fails(p)
    \/ \E f \in DamagedFileNames : Env_corrupt(f)
    \/ \E f \in DamagedFileNames : Env_strip(f)

SpecFaults == Init /\ [][NextFaults]_vars

\* the file is missing or does not parse
Unreadable(fs, filename) == ~fs[filename].exists \/ ~fs[filename].valid

\* C13: load_data of a file that is missing or does not parse is the empty
\* mapping, nothing of what the file holds; and an operation that loads such
\* a file raises nothing and goes on as with an empty snapshot:
\* create_reservation holds an empty ledger and finds no hotel,
\* cancel_reservation finds no reservation and saves no hotel snapshot.
C13_LoadUnreadableIsEmpty ==
    /\ [](\A f \in FileNames :
             Unreadable(files, f) => load_data(files, f) = EmptyDict)
    /\ [][\A p \in FaultProcs :
             LET pr == procs[p]
                 after == procs'[p]
             IN
             /\ (/\ pr.pc = "idle"
                 /\ after /= pr
                 /\ after.op \in {"create_reservation", "cancel_reservation"}
                 /\ Unreadable(files, Reservation_FILE_NAME)) =>
                    IF after.op = "create_reservation"
                    THEN after.pc = "load_hotels" /\ after.res_data = EmptyDict
                    ELSE after.outcome = "returned" /\ after.ret = FALSE
             /\ (/\ pr.pc = "load_hotels"
                 /\ after /= pr
                 /\ Unreadable(files, Hotel_FILE_NAME)) =>
                    IF pr.op = "create_reservation"
                    THEN after.outcome = "returned" /\ after.ret = FALSE
                    ELSE /\ after.pc = "save"
                         /\ after.hotel_data = EmptyDict
                         /\ Len(after.writes) = 1
                         /\ Head(after.writes).filename = Reservation_FILE_NAME
         ]_vars

\* create_reservation has returned False on a hotel whose record can still be
\* read in the hotel snapshot, which does not parse
C13_Witness ==
    \E p \in FaultProcs :
        /\ procs[p].op = "create_reservation"
        /\ procs[p].outcome = "returned"
        /\ procs[p].ret = FALSE
        /\ procs[p].res_id \notin DOMAIN LedgerOf(files)
        /\ files[Hotel_FILE_NAME].exists
        /\ ~files[Hotel_FILE_NAME].valid
        /\ procs[p].hotel_id \in DOMAIN files[Hotel_FILE_NAME].data
        /\ HotelsOf(files) = EmptyDict

\* C14: no operation lets an exception escape, whatever the snapshot files
\* hold and whether or not a save fails.
C14_NoExceptionEscapes ==
    \A p \in FaultProcs : procs[p].outcome /= "raised"

\* C20: a save that fails stops nothing: the operation does its remaining
\* saves and returns True, and the file that was to be saved loads as before or
\* as empty.  A create_reservation whose hotel save failed still saves the
\* ledger with the reservation in it.
C20_FailedSaveNotPropagated ==
    [][\A p \in FaultProcs :
          LET pr == procs[p]
              after == procs'[p]
          IN
          /\ (pr.pc = "save" /\ after.failed /= pr.failed) =>
                 LET w == Head(pr.writes) IN
                 /\ after.outcome /= "raised"
                 /\ IF Len(pr.writes) = 1
                    THEN after.outcome = "returned" /\ after.ret = TRUE
                    ELSE after.pc = "save" /\ after.writes = Tail(pr.writes)
                 /\ load_data(files', w.filename)
                        \in {load_data(files, w.filename), EmptyDict}
          /\ (/\ pr.pc = "save"
              /\ pr.op = "create_reservation"
              /\ pr.failed = {Hotel_FILE_NAME}
              /\ after.failed = pr.failed
              /\ after /= pr) =>
                 /\ after.outcome = "returned" /\ after.ret = TRUE
                 /\ pr.res_id \in DOMAIN LedgerOf(files')
                 /\ LedgerOf(files')[pr.res_id].hotel_id = pr.hotel_id
                 /\ files'[Hotel_FILE_NAME] = files[Hotel_FILE_NAME]
      ]_vars

\* create_reservation has returned True after its hotel save failed: the
\* reservation is in the ledger and the hotel has all its rooms free
C20_Witness ==
    \E p \in FaultProcs :
        LET pr == procs[p] IN
        /\ pr.op = "create_reservation"
        /\ pr.outcome = "returned"
        /\ pr.ret = TRUE
        /\ pr.failed = {Hotel_FILE_NAME}
        /\ pr.res_id \in DOMAIN LedgerOf(files)
        /\ LedgerOf(files)[pr.res_id] /= EmptyDict
        /\ LedgerOf(files)[pr.res_id].hotel_id = pr.hotel_id
        /\ pr.hotel_id \in DOMAIN HotelsOf(files)
        /\ HotelsOf(files)[pr.hotel_id] /= EmptyDict
        /\ HotelsOf(files)[pr.hotel_id].available_rooms =
               HotelsOf(files)[pr.hotel_id].total_rooms

(***************************************************************************)
(* The public operations, one at a time and each run to completion, on     *)
(* snapshot files that an outside edit can leave unparsable.               *)
(***************************************************************************)
\* ids, rooms, names and emails the operations are called with
DamageHotelIdValues == {[int |-> 1]}
DamageCustomerIdValues == {[int |-> 1]}
DamageRoomValues == {1}
DamageHotelNames == {None, "Grand Plaza"}
DamageCustomerEmails == {None, "j@m.com"}

\* the files that exist and do not parse
UnparsableFiles(fs) == {f \in FileNames : fs[f].exists /\ ~fs[f].valid}

\* Each operation is recorded in lastOp with the files that did not parse
\* when it was called.
Run_create_hotel ==
    \E hotel_id \in DamageHotelIdValues, name \in CreateHotelNames,
       location \in CreateHotelLocations, rooms \in DamageRoomValues :
        LET r == create_hotel(files, hotel_id, name, location, rooms) IN
        /\ files' = r.fs
        /\ lastOp' = [op |-> "create_hotel", hotel_id |-> str(hotel_id),
                      unparsable |-> UnparsableFiles(files), ret |-> r.ret]
        /\ UNCHANGED procs

Run_delete_hotel ==
    \E hotel_id \in DamageHotelIdValues :
        LET r == delete_hotel(files, hotel_id) IN
        /\ files' = r.fs
        /\ lastOp' = [op |-> "delete_hotel", hotel_id |-> str(hotel_id),
                      unparsable |-> UnparsableFiles(files), ret |-> r.ret]
        /\ UNCHANGED procs

Run_display_hotel ==
    \E hotel_id \in DamageHotelIdValues :
        LET r == display_hotel(files, hotel_id) IN
        /\ files' = r.fs
        /\ lastOp' = [op |-> "display_hotel", hotel_id |-> str(hotel_id),
                      unparsable |-> UnparsableFiles(files), ret |-> r.ret]
        /\ UNCHANGED procs

Run_modify_hotel ==
    \E hotel_id \in DamageHotelIdValues, name \in DamageHotelNames,
       location \in ModifyHotelLocations :
        LET r == modify_hotel(files, hotel_id, name, location) IN
        /\ files' = r.fs
        /\ lastOp' = [op |-> "modify_hotel", hotel_id |-> str(hotel_id),
                      unparsable |-> UnparsableFiles(files), ret |-> r.ret]
        /\ UNCHANGED procs

Run_create_customer ==
    \E customer_id \in DamageCustomerIdValues, name \in CreateCustomerNames,
       email \in CreateCustomerEmails :
        LET r == create_customer(files, customer_id, name, email) IN
        /\ files' = r.fs
        /\ lastOp' = [op |-> "create_customer", customer_id |-> str(customer_id),
                      unparsable |-> UnparsableFiles(files), ret |-> r.ret]
        /\ UNCHANGED procs

Run_delete_customer ==
    \E customer_id \in DamageCustomerIdValues :
        LET r == delete_customer(files, customer_id) IN
        /\ files' = r.fs
        /\ lastOp' = [op |-> "delete_customer", customer_id |-> str(customer_id),
                      unparsable |-> UnparsableFiles(files), ret |-> r.ret]
        /\ UNCHANGED procs

Run_display_customer ==
    \E customer_id \in DamageCustomerIdValues :
        LET r == display_customer(files, customer_id) IN
        /\ files' = r.fs
        /\ lastOp' = [op |-> "display_customer", customer_id |-> str(customer_id),
                      unparsable |-> UnparsableFiles(files), ret |-> r.ret]
        /\ UNCHANGED procs

Run_modify_customer ==
    \E customer_id \in DamageCustomerIdValues, name \in ModifyCustomerNames,
       email \in DamageCustomerEmails :
        LET r == modify_customer(files, customer_id, name, email) IN
        /\ files' = r.fs
        /\ lastOp' = [op |-> "modify_customer", customer_id |-> str(customer_id),
                      unparsable |-> UnparsableFiles(files), ret |-> r.ret]
        /\ UNCHANGED procs

Run_create_reservation ==
    \E res_id \in ResIdValues, customer_id \in DamageCustomerIdValues,
       hotel_id \in DamageHotelIdValues :
        LET r == create_reservation(files, res_id, customer_id, hotel_id) IN
        /\ files' = r.fs
        /\ lastOp' = [op |-> "create_reservation", res_id |-> str(res_id), customer_id |-> str(customer_id), hotel_id |-> str(hotel_id),
                      unparsable |-> UnparsableFiles(files), ret |-> r.ret]
        /\ UNCHANGED procs

Run_cancel_reservation ==
    \E res_id \in ResIdValues :
        LET r == cancel_reservation(files, res_id) IN
        /\ files' = r.fs
        /\ lastOp' = [op |-> "cancel_reservation", res_id |-> str(res_id),
                      unparsable |-> UnparsableFiles(files), ret |-> r.ret]
        /\ UNCHANGED procs

\* any of the three snapshot files is edited so that it does not parse
NextDamage ==
    \/ Run_create_hotel
    \/ Run_delete_hotel
    \/ Run_display_hotel
    \/ Run_modify_hotel
    \/ Run_create_customer
    \/ Run_delete_customer
    \/ Run_display_customer
    \/ Run_modify_customer
    \/ Run_create_reservation
    \/ Run_cancel_reservation
    \/ \E f \in FileNames : Env_corrupt(f)

SpecDamage == Init /\ [][NextDamage]_vars

\* the step is an operation, not an outside edit: no file stops parsing
OperationStep ==
    \A f \in FileNames : files[f].valid => files'[f].valid

\* the file holds exactly one record, under key k
OnlyRecord(fs, filename, k) ==
    /\ fs[filename].exists /\ fs[filename].valid
    /\ DOMAIN fs[filename].data = {k}

\* C21: on a snapshot that does not parse, create_hotel and create_customer
\* return True and leave the snapshot with the new record only, and so does a
\* create_reservation that returns True with the ledger; delete, modify and
\* display of hotels and customers, and cancel_reservation, report not found
\* and leave every file as it was.
C21_UnparsableOverwrittenOrNotFound ==
    [][OperationStep =>
        LET op == lastOp'.op
            bad(f) == files[f].exists /\ ~files[f].valid
        IN
        /\ (op = "create_hotel" /\ bad(Hotel_FILE_NAME)) =>
               /\ lastOp'.ret = TRUE
               /\ OnlyRecord(files', Hotel_FILE_NAME, lastOp'.hotel_id)
        /\ (op = "create_customer" /\ bad(Customer_FILE_NAME)) =>
               /\ lastOp'.ret = TRUE
               /\ OnlyRecord(files', Customer_FILE_NAME, lastOp'.customer_id)
        /\ (/\ op = "create_reservation"
            /\ bad(Reservation_FILE_NAME)
            /\ lastOp'.ret = TRUE) =>
               /\ OnlyRecord(files', Reservation_FILE_NAME, lastOp'.res_id)
               /\ LedgerOf(files')[lastOp'.res_id] =
                      [customer_id |-> lastOp'.customer_id,
                       hotel_id |-> lastOp'.hotel_id]
        /\ (op \in {"delete_hotel", "modify_hotel"}
                /\ bad(Hotel_FILE_NAME)) =>
               lastOp'.ret = FALSE /\ files' = files
        /\ (op = "display_hotel" /\ bad(Hotel_FILE_NAME)) =>
               /\ lastOp'.ret = [found |-> FALSE, record |-> HotelNotFound]
               /\ files' = files
        /\ (op \in {"delete_customer", "modify_customer"}
                /\ bad(Customer_FILE_NAME)) =>
               lastOp'.ret = FALSE /\ files' = files
        /\ (op = "display_customer" /\ bad(Customer_FILE_NAME)) =>
               /\ lastOp'.ret = [found |-> FALSE, record |-> CustomerNotFound]
               /\ files' = files
        /\ (op = "cancel_reservation" /\ bad(Reservation_FILE_NAME)) =>
               lastOp'.ret = FALSE /\ files' = files
      ]_vars

\* create_reservation was called with a ledger that did not parse and
\* returned True: the ledger holds the new reservation and nothing else
C21_Witness ==
    /\ lastOp.op = "create_reservation"
    /\ Reservation_FILE_NAME \in lastOp.unparsable
    /\ lastOp.ret = TRUE
    /\ OnlyRecord(files, Reservation_FILE_NAME, lastOp.res_id)

\* C25: display_hotel and display_customer write no file, whether the
\* snapshot parses, is missing or does not parse; they return the record
\* stored under the id if the id is a key of the loaded snapshot and the
\* not-found sentinel if it is not.
C25_DisplayReadOnly ==
    [][OperationStep =>
        /\ lastOp'.op = "display_hotel" =>
               /\ files' = files
               /\ lastOp'.ret =
                      IF lastOp'.hotel_id \in DOMAIN HotelsOf(files)
                      THEN [found |-> TRUE,
                            record |-> HotelsOf(files)[lastOp'.hotel_id]]
                      ELSE [found |-> FALSE, record |-> HotelNotFound]
        /\ lastOp'.op = "display_customer" =>
               /\ files' = files
               /\ lastOp'.ret =
                      IF lastOp'.customer_id \in DOMAIN CustomersOf(files)
                      THEN [found |-> TRUE,
                            record |-> CustomersOf(files)[lastOp'.customer_id]]
                      ELSE [found |-> FALSE, record |-> CustomerNotFound]
      ]_vars

\* display_hotel was called on a hotel snapshot that did not parse: it
\* returned the sentinel, and the file is still unparsable with the hotel
\* readable in it
C25_Witness ==
    /\ lastOp.op = "display_hotel"
    /\ Hotel_FILE_NAME \in lastOp.unparsable
    /\ lastOp.ret = [found |-> FALSE, record |-> HotelNotFound]
    /\ files[Hotel_FILE_NAME].exists
    /\ ~files[Hotel_FILE_NAME].valid
    /\ lastOp.hotel_id \in DOMAIN files[Hotel_FILE_NAME].data

\* the hotel a create_reservation / cancel_reservation step refers to: the
\* hotel_id argument, or the hotel_id of the reservation to cancel ("" if
\* there is no such reservation)
ReferencedHotel ==
    IF lastOp'.op = "create_reservation"
    THEN lastOp'.hotel_id
    ELSE IF lastOp'.res_id \in DOMAIN LedgerOf(files)
         THEN LedgerOf(files)[lastOp'.res_id].hotel_id
         ELSE ""

\* C22: a create_reservation or cancel_reservation step leaves the hotel
\* snapshot with the same hotels, each with the name, location and total_rooms
\* it had, and every hotel but the referenced one with the available_rooms it
\* had; and no step of any operation changes the total_rooms of a hotel that
\* is in the snapshot before and after it.
C22_OnlyAvailableOfReferencedHotel ==
    [][/\ lastOp'.op \in {"create_reservation", "cancel_reservation"} =>
              /\ DOMAIN HotelsOf(files') = DOMAIN HotelsOf(files)
              /\ \A h \in DOMAIN HotelsOf(files) :
                     LET before == HotelsOf(files)[h]
                         after == HotelsOf(files')[h]
                     IN  /\ after.name = before.name
                         /\ after.location = before.location
                         /\ after.total_rooms = before.total_rooms
                         /\ DOMAIN after = DOMAIN before
                         /\ h /= ReferencedHotel => after = before
       /\ \A h \in DOMAIN HotelsOf(files) \cap DOMAIN HotelsOf(files') :
              HotelsOf(files')[h].total_rooms = HotelsOf(files)[h].total_rooms
      ]_vars

\* a reservation has just been cancelled and its room freed while the
\* snapshot holds another hotel, one of whose rooms is reserved
C22_Witness ==
    /\ lastOp.op = "cancel_reservation"
    /\ lastOp.ret
    /\ \E h, g \in DOMAIN HotelsOf(files) :
           /\ h /= g
           /\ HotelsOf(files)[h].available_rooms = HotelsOf(files)[h].total_rooms
           /\ HotelsOf(files)[h].total_rooms > 0
           /\ HotelsOf(files)[g].available_rooms < HotelsOf(files)[g].total_rooms
           /\ RefCount(files, g) = 1
           /\ RefCount(files, h) = 0

\* the reservations of the ledger data that reference the hotel
CountIn(res_data, hid) ==
    Cardinality({r \in DOMAIN res_data : res_data[r].hotel_id = hid})

\* what the hotel has free beyond its total less its reservations
DriftIn(hotel_data, res_data, hid) ==
    hotel_data[hid].available_rooms
        - (hotel_data[hid].total_rooms - CountIn(res_data, hid))

Drift(fs, hid) == DriftIn(HotelsOf(fs), LedgerOf(fs), hid)

\* the operation result leaves the drift of every hotel as it is in fs
KeepsDrift(fs, r) ==
    \A h \in DOMAIN HotelsOf(fs) \cap DOMAIN HotelsOf(r.fs) :
        Drift(r.fs, h) = Drift(fs, h)

\* C23: nothing recomputes the counters from the ledger.  In every state that
\* operations cut short can leave, create_reservation, cancel_reservation,
\* modify_hotel and the customer operations, run to completion, leave the
\* drift of every hotel as it was; and a create_reservation or
\* cancel_reservation that returns after its last save leaves every hotel
\* with the drift it had in the data the operation loaded.
C23_DriftNeverRepaired ==
    /\ [](/\ \A res_id \in ProcResIdValues :
                 KeepsDrift(files, cancel_reservation(files, res_id))
          /\ \A res_id \in ProcResIdValues,
                customer_id \in ProcCustomerIdValues,
                hotel_id \in ProcHotelIdValues :
                 KeepsDrift(files, create_reservation(files, res_id,
                                                      customer_id, hotel_id))
          /\ \A hotel_id \in ProcHotelIdValues, name \in AnyHotelNames,
                location \in AnyHotelLocations :
                 KeepsDrift(files, modify_hotel(files, hotel_id, name,
                                                location))
          /\ \A customer_id \in ProcCustomerIdValues :
                 /\ KeepsDrift(files, delete_customer(files, customer_id))
                 /\ \A name \in CreateCustomerNames,
                       email \in CreateCustomerEmails :
                        KeepsDrift(files, create_customer(files, customer_id,
                                                          name, email))
                 /\ \A name \in ModifyCustomerNames,
                       email \in ModifyCustomerEmails :
                        KeepsDrift(files, modify_customer(files, customer_id,
                                                          name, email)))
    /\ [][\A p \in CrashProcs :
             (/\ procs[p].pc = "save"
              /\ procs'[p].outcome = "returned"
              /\ procs'[p].ret = TRUE) =>
                 \A h \in DOMAIN procs[p].hotel_data :
                     /\ h \in DOMAIN HotelsOf(files')
                     /\ Drift(files', h) =
                            DriftIn(procs[p].hotel_data, procs[p].res_data, h)
         ]_vars

\* a create_reservation or cancel_reservation has returned True and a hotel
\* still has the drift an earlier operation left when it was cut short
C23_Witness ==
    \E p \in CrashProcs :
        /\ procs[p].op \in {"create_reservation", "cancel_reservation"}
        /\ procs[p].outcome = "returned"
        /\ procs[p].ret = TRUE
        /\ \E h \in DOMAIN HotelsOf(files) : Drift(files, h) /= 0

\* P_load_hotels, with cancel_reservation not going on once a hotel has
\* MaxDrift free rooms beyond its total: a process that holds an old copy can
\* otherwise raise the counter again and again
P_load_hotels_capped(p) ==
    /\ procs[p].op = "cancel_reservation" => WithinDrift(files)
    /\ P_load_hotels(p)

\* Two processes, the file accesses of their operations interleaved, each of
\* which can stop between any two of its file accesses.
NextConcCrash ==
    \/ \E p \in Procs : P_create_hotel(p)
    \/ \E p \in Procs : P_begin_create_reservation(p)
    \/ \E p \in Procs : P_begin_cancel_reservation(p)
    \/ \E p \in Procs : P_load_hotels_capped(p)
    \/ \E p \in Procs : P_save(p)
    \/ \E p \in Procs : P_crash(p)

SpecConcCrash == Init /\ [][NextConcCrash]_vars

\* C24: no hotel of the persisted snapshot has a negative available_rooms,
\* whatever the interleaving of two processes and wherever they stop: a
\* decrement is saved only after a value greater than 0 was loaded.
C24_AvailableNeverNegative ==
    /\ \A h \in DOMAIN HotelsOf(files) :
           HotelsOf(files)[h].available_rooms >= 0
    /\ \A p \in Procs :
           (procs[p].op = "create_reservation" /\ Len(procs[p].writes) > 0) =>
               procs[p].hotel_data[procs[p].hotel_id].available_rooms > 0

\* create_reservation has returned False on a hotel with no free room although
\* the ledger holds fewer reservations than the hotel has rooms: the counter
\* was brought down to 0 by operations cut short or overwritten
C24_Witness ==
    \E p \in Procs :
        /\ procs[p].op = "create_reservation"
        /\ procs[p].outcome = "returned"
        /\ procs[p].ret = FALSE
        /\ procs[p].res_id \notin DOMAIN LedgerOf(files)
        /\ procs[p].hotel_id \in DOMAIN HotelsOf(files)
        /\ HotelsOf(files)[procs[p].hotel_id].available_rooms = 0
        /\ RefCount(files, procs[p].hotel_id)
               < HotelsOf(files)[procs[p].hotel_id].total_rooms

=============================================================================
